---- MODULE Spec2Model ----
(***************************************************************************)
(* URL shortener (src/src/index.ts): the urls table of the PostgreSQL      *)
(* store and the three request handlers POST /shorten, GET /:code and      *)
(* GET /stats/:code.  Every request is a process; each `await              *)
(* client.query(...)` is one atomic statement of the store, executed       *)
(* together with the synchronous code that follows it up to the next       *)
(* await.  Requests interleave freely between their statements.            *)
(***************************************************************************)
EXTENDS Integers, Sequences, FiniteSets, TLC

VARIABLES urls, urls_id_seq, pc, req, client, row, res

vars == <<urls, urls_id_seq, pc, req, client, row, res>>

(***************************************************************************)
(* Bounds of the model.                                                    *)
(***************************************************************************)
\* Number of requests the server receives in one behaviour; they are numbered
\* in the order of their arrival and may all be in flight at once.
MaxRequests == 3

Requests == 1..MaxRequests

(***************************************************************************)
(* Program constants.                                                      *)
(***************************************************************************)
\* generateShortCode(url, length = 7)
DefaultLength == 7
\* query('alias').optional().isLength({ min: 3, max: 30 })
AliasMin == 3
AliasMax == 30
\* crypto md5 digest('hex'): 32 hexadecimal digits
HexDigestLength == 32

(***************************************************************************)
(* Strings are sequences of one-character strings.                         *)
(***************************************************************************)
HexDigits == <<"0", "1", "2", "3", "4", "5", "6", "7",
               "8", "9", "a", "b", "c", "d", "e", "f">>

Letters == {"a", "b", "c", "x"}

\* Character code of the characters the model's inputs are written with.
Ord(c) ==
    CASE c = "a" -> 97
      [] c = "b" -> 98
      [] c = "c" -> 99
      [] c = "x" -> 120
      [] c = ":" -> 58
      [] OTHER -> 48

\* SQL NULL, and JavaScript's undefined for an optional request parameter;
\* neither is a string a client can send.
NULL == <<"NULL">>
undefined == <<"undefined">>

\* last_accessed TIMESTAMP WITH TIME ZONE, nullable: the null timestamp.
NullTime == 0

(***************************************************************************)
(* Code Generator                                                          *)
(***************************************************************************)
RECURSIVE Fold(_)
\* The digest's internal state after absorbing the text.  MD5 itself is not
\* computed: it is abstracted by a fixed deterministic digest with a small
\* state, so that, as for a 28-bit truncation of MD5, distinct texts can
\* collide (here: texts with the same multiset of characters).
Fold(s) == IF s = <<>> THEN 0 ELSE (Ord(Head(s)) + Fold(Tail(s))) % 256

\* crypto.createHash('md5').update(url).digest('hex')
md5hex(url) ==
    [i \in 1..HexDigestLength |->
        HexDigits[(((IF i % 2 = 1 THEN Fold(url) \div 16 ELSE Fold(url) % 16) + i) % 16) + 1]]

\* hash.substring(0, length)
generateShortCode(url, length) == SubSeq(md5hex(url), 1, length)

(***************************************************************************)
(* Validation                                                              *)
(***************************************************************************)
\* new URL(url) succeeds: the text starts with a scheme (letters) and ":".
isValidUrl(url) ==
    \E i \in 2..Len(url) :
        /\ url[i] = ":"
        /\ \A j \in 1..(i - 1) : url[j] \in Letters

\* body('url').notEmpty()
UrlNotEmpty(url) == url # <<>>

\* Mutant: isLength({ min: 3 }), without the maximum.
AliasLengthOkMinOnly(alias) ==
    alias = undefined \/ Len(alias) >= AliasMin

\* query('alias').optional().isLength({ min: 3, max: 30 })
AliasLengthOk(alias) ==
    alias = undefined \/ (Len(alias) >= AliasMin /\ Len(alias) <= AliasMax)

(***************************************************************************)
(* Inputs of the model.                                                    *)
(***************************************************************************)
UrlAB == <<"x", ":", "a", "b">>
UrlBA == <<"x", ":", "b", "a">>
UrlC == <<"x", ":", "c">>
UrlMalformed == <<"a", "b">>
UrlEmpty == <<>>

AliasAbc == <<"a", "b", "c">>
\* A custom alias that spells the short code of another URL.
AliasLikeCode == generateShortCode(UrlAB, DefaultLength)
AliasShort == <<"a", "b">>
AliasLong == [i \in 1..(AliasMax + 1) |-> "a"]

\* The (body url, query alias) pairs of the POST /shorten requests: every
\* combination of three well-formed URLs (two of them with the same short
\* code) with no alias or one of two aliases, and requests that fail each of
\* the validations.
ShortenInputs ==
    ({UrlAB, UrlBA, UrlC} \X {undefined, AliasAbc, AliasLikeCode})
    \cup {<<UrlEmpty, undefined>>, <<UrlMalformed, undefined>>,
          <<UrlMalformed, AliasAbc>>, <<UrlAB, AliasShort>>,
          <<UrlC, AliasLong>>, <<UrlEmpty, AliasShort>>}

\* Path parameters of GET /:code and GET /stats/:code: an alias, a short code
\* and a key no record is ever stored under.
PathCodes == {AliasAbc, AliasLikeCode, <<"x", "x", "x">>}

(***************************************************************************)
(* The urls table                                                          *)
(***************************************************************************)
\* Mutant: the lookup compares the wrong column and never finds the URL.
SelectByUrlWrongColumn(t, url) == {r \in t : r.short_code = url}

\* Rows selected by  WHERE original_url = $1
SelectByUrl(t, url) == {r \in t : r.original_url = url}

\* Mutant: the alias check compares the wrong column.
SelectByAliasWrongColumn(t, alias) == {r \in t : r.original_url = alias}

\* Rows selected by  WHERE alias = $1
SelectByAlias(t, alias) == {r \in t : r.alias # NULL /\ r.alias = alias}

\* Mutant: WHERE alias = $1 OR short_code = short_code, true of every row.
SelectByCodeEveryRow(t, code) ==
    {r \in t : (r.alias # NULL /\ r.alias = code) \/ r.short_code = r.short_code}

\* Rows selected by  WHERE alias = $1 OR short_code = $1
SelectByCode(t, code) ==
    {r \in t : (r.alias # NULL /\ r.alias = code) \/ r.short_code = code}

\* Mutant: short_code is not declared UNIQUE.
UniqueViolationAliasOnly(t, short_code, alias) ==
    alias # NULL /\ \E r \in t : r.alias # NULL /\ r.alias = alias

\* Mutant: alias is not declared UNIQUE.
UniqueViolationCodeOnly(t, short_code, alias) ==
    \E r \in t : r.short_code = short_code

\* short_code VARCHAR(10) NOT NULL UNIQUE, alias VARCHAR(30) UNIQUE: the
\* insert of (short_code, alias) violates a unique constraint of the table.
UniqueViolation(t, short_code, alias) ==
    \/ \E r \in t : r.short_code = short_code
    \/ alias # NULL /\ \E r \in t : r.alias # NULL /\ r.alias = alias

\* Mutant: the insert does not pass the alias on.
NewRowWithoutAlias(id, url, short_code, alias, now) ==
    [id |-> id, original_url |-> url, short_code |-> short_code,
     alias |-> NULL, created_at |-> now, access_count |-> 0,
     last_accessed |-> NullTime]

\* The row  INSERT INTO urls (original_url, short_code, alias)  adds, with the
\* defaults of the table's columns.
NewRow(id, url, short_code, alias, now) ==
    [id |-> id, original_url |-> url, short_code |-> short_code,
     alias |-> alias, created_at |-> now, access_count |-> 0,
     last_accessed |-> NullTime]

\* Mutant: the UPDATE also stamps created_at.
UpdateAccessStampsCreated(t, id, now) ==
    {IF r.id = id
       THEN [r EXCEPT !.access_count = r.access_count + 1, !.last_accessed = now,
                      !.created_at = now]
       ELSE r : r \in t}

\* Mutant: the UPDATE subtracts instead of adding.
UpdateAccessDecrements(t, id, now) ==
    {IF r.id = id
       THEN [r EXCEPT !.access_count = r.access_count - 1, !.last_accessed = now]
       ELSE r : r \in t}

\* Mutant: the UPDATE does not set last_accessed.
UpdateAccessCountOnly(t, id, now) ==
    {IF r.id = id
       THEN [r EXCEPT !.access_count = r.access_count + 1]
       ELSE r : r \in t}

\* Mutant: the UPDATE has no WHERE clause.
UpdateAccessEveryRow(t, id, now) ==
    {[r EXCEPT !.access_count = r.access_count + 1, !.last_accessed = now] : r \in t}

\* UPDATE urls SET access_count = access_count + 1,
\*                 last_accessed = CURRENT_TIMESTAMP WHERE id = $1
UpdateAccess(t, id, now) ==
    {IF r.id = id
       THEN [r EXCEPT !.access_count = r.access_count + 1, !.last_accessed = now]
       ELSE r : r \in t}

(***************************************************************************)
(* Requests and responses                                                  *)
(***************************************************************************)
NoRow == [id |-> 0, original_url |-> <<>>, short_code |-> <<>>, alias |-> NULL,
          created_at |-> NullTime, access_count |-> 0, last_accessed |-> NullTime]

NoReq == [op |-> "none", url |-> undefined, alias |-> undefined, code |-> undefined]

NoRes == [status |-> 0, short_path |-> <<>>, location |-> <<>>, stats |-> NoRow,
          logged |-> "none"]

\* Mutant: the path of an existing record is always its short code.
ShortPathCodeOnly(r) == r.short_code

\* const path = existingAlias || short_code
ShortPath(r) == IF r.alias # NULL THEN r.alias ELSE r.short_code

Reply(status) == [NoRes EXCEPT !.status = status]

\* CURRENT_TIMESTAMP: the clock advances with every request that arrives.
Now == Cardinality({p \in Requests : pc[p] # "idle"})

\* Requests are numbered in the order in which they arrive.
Arrives(p) == pc[p] = "idle" /\ (IF p = 1 THEN TRUE ELSE pc[p - 1] # "idle")

Init ==
    /\ urls = {}
    /\ urls_id_seq = 1
    /\ pc = [p \in Requests |-> "idle"]
    /\ req = [p \in Requests |-> NoReq]
    /\ client = [p \in Requests |-> "none"]
    /\ row = [p \in Requests |-> NoRow]
    /\ res = [p \in Requests |-> NoRes]

\* Mutant: the handler has no finally block and keeps its client.
FinishWithoutRelease(p, response) ==
    /\ res' = [res EXCEPT ![p] = response]
    /\ client' = client
    /\ pc' = [pc EXCEPT ![p] = "done"]

\* The handler's finally block after a response: client.release().
Finish(p, response) ==
    /\ res' = [res EXCEPT ![p] = response]
    /\ client' = [client EXCEPT ![p] = "released"]
    /\ pc' = [pc EXCEPT ![p] = "done"]

(***************************************************************************)
(* POST /shorten                                                           *)
(***************************************************************************)
\* The request arrives and is validated; a valid one acquires its client from
\* the pool (await pool.connect()) and goes on to its first statement.
ShortenReceive(p, url, alias) ==
    /\ Arrives(p)
    /\ req' = [req EXCEPT ![p] = [NoReq EXCEPT !.op = "shorten", !.url = url,
                                                !.alias = alias]]
    /\ IF UrlNotEmpty(url) /\ AliasLengthOk(alias) /\ isValidUrl(url)
         THEN /\ pc' = [pc EXCEPT ![p] = "select_url"]
              /\ client' = [client EXCEPT ![p] = "held"]
              /\ res' = res
         ELSE /\ pc' = [pc EXCEPT ![p] = "done"]
              /\ client' = client
              /\ res' = [res EXCEPT ![p] = Reply(400)]
    /\ UNCHANGED <<urls, urls_id_seq, row>>

\* SELECT short_code, alias FROM urls WHERE original_url = $1, and the code
\* that follows it.
ShortenSelectUrl(p) ==
    /\ pc[p] = "select_url"
    /\ LET rows == SelectByUrl(urls, req[p].url) IN
         IF rows # {}
           THEN \E first \in rows :
                  Finish(p, [Reply(200) EXCEPT !.short_path = ShortPath(first)])
           ELSE /\ pc' = [pc EXCEPT ![p] =
                      IF req[p].alias # undefined THEN "select_alias" ELSE "insert"]
                /\ UNCHANGED <<res, client>>
    /\ UNCHANGED <<urls, urls_id_seq, req, row>>

\* SELECT id FROM urls WHERE alias = $1, and the code that follows it.
ShortenSelectAlias(p) ==
    /\ pc[p] = "select_alias"
    /\ IF SelectByAlias(urls, req[p].alias) # {}
         THEN Finish(p, Reply(409))
         ELSE /\ pc' = [pc EXCEPT ![p] = "insert"]
              /\ UNCHANGED <<res, client>>
    /\ UNCHANGED <<urls, urls_id_seq, req, row>>

\* INSERT INTO urls (original_url, short_code, alias) VALUES ($1, $2, $3), and
\* the code that follows it; a unique violation is thrown to the catch block.
\* The id sequence advances whether or not the insert succeeds.
ShortenInsert(p) ==
    /\ pc[p] = "insert"
    /\ LET shortCode == generateShortCode(req[p].url, DefaultLength)
           alias == IF req[p].alias # undefined THEN req[p].alias ELSE NULL
       IN  IF UniqueViolation(urls, shortCode, alias)
             THEN /\ urls' = urls
                  /\ Finish(p, [Reply(500) EXCEPT !.logged = "unique_violation"])
             ELSE /\ urls' = urls \cup
                        {NewRow(urls_id_seq, req[p].url, shortCode, alias, Now)}
                  /\ Finish(p, [Reply(201) EXCEPT !.short_path =
                        IF req[p].alias # undefined THEN req[p].alias ELSE shortCode])
    /\ urls_id_seq' = urls_id_seq + 1
    /\ UNCHANGED <<req, row>>

\* A statement of the handler fails in the store (connectivity, transaction
\* failure) without effect: catch, 500, finally.
ShortenStoreFailure(p) ==
    /\ pc[p] \in {"select_url", "select_alias", "insert"}
    /\ Finish(p, [Reply(500) EXCEPT !.logged = "store_failure"])
    /\ UNCHANGED <<urls, urls_id_seq, req, row>>

(***************************************************************************)
(* GET /:code                                                              *)
(***************************************************************************)
\* The request arrives and acquires its client from the pool.
RedirectReceive(p, code) ==
    /\ Arrives(p)
    /\ req' = [req EXCEPT ![p] = [NoReq EXCEPT !.op = "redirect", !.code = code]]
    /\ pc' = [pc EXCEPT ![p] = "select_code"]
    /\ client' = [client EXCEPT ![p] = "held"]
    /\ UNCHANGED <<urls, urls_id_seq, row, res>>

\* SELECT id, original_url FROM urls WHERE alias = $1 OR short_code = $1, and
\* the code that follows it; query.rows[0] is any of the selected rows.
RedirectSelect(p) ==
    /\ pc[p] = "select_code"
    /\ req[p].op = "redirect"
    /\ LET rows == SelectByCode(urls, req[p].code) IN
         IF rows = {}
           THEN /\ Finish(p, Reply(404))
                /\ row' = row
           ELSE /\ \E first \in rows :
                     row' = [row EXCEPT ![p] = [NoRow EXCEPT !.id = first.id,
                                 !.original_url = first.original_url]]
                /\ pc' = [pc EXCEPT ![p] = "update"]
                /\ UNCHANGED <<res, client>>
    /\ UNCHANGED <<urls, urls_id_seq, req>>

\* UPDATE urls SET access_count = access_count + 1, last_accessed =
\* CURRENT_TIMESTAMP WHERE id = $1, then res.redirect(original_url).
RedirectUpdate(p) ==
    /\ pc[p] = "update"
    /\ urls' = UpdateAccess(urls, row[p].id, Now)
    /\ Finish(p, [Reply(302) EXCEPT !.location = row[p].original_url])
    /\ UNCHANGED <<urls_id_seq, req, row>>

\* A statement of the handler fails in the store without effect: catch, 500,
\* finally.
RedirectStoreFailure(p) ==
    /\ pc[p] \in {"select_code", "update"}
    /\ req[p].op = "redirect"
    /\ Finish(p, [Reply(500) EXCEPT !.logged = "store_failure"])
    /\ UNCHANGED <<urls, urls_id_seq, req, row>>

(***************************************************************************)
(* GET /stats/:code                                                        *)
(***************************************************************************)
\* The request arrives and acquires its client from the pool.
StatsReceive(p, code) ==
    /\ Arrives(p)
    /\ req' = [req EXCEPT ![p] = [NoReq EXCEPT !.op = "stats", !.code = code]]
    /\ pc' = [pc EXCEPT ![p] = "select_code"]
    /\ client' = [client EXCEPT ![p] = "held"]
    /\ UNCHANGED <<urls, urls_id_seq, row, res>>

\* Mutant: the statistics handler counts its own lookup as an access.
StatsSelectCounting(p) ==
    /\ pc[p] = "select_code"
    /\ req[p].op = "stats"
    /\ LET rows == SelectByCode(urls, req[p].code) IN
         IF rows = {}
           THEN Finish(p, Reply(404)) /\ urls' = urls
           ELSE \E first \in rows :
                  /\ Finish(p, [Reply(200) EXCEPT !.stats = [first EXCEPT !.id = 0]])
                  /\ urls' = UpdateAccess(urls, first.id, Now)
    /\ UNCHANGED <<urls_id_seq, req, row>>

\* SELECT original_url, short_code, alias, created_at, access_count,
\* last_accessed FROM urls WHERE alias = $1 OR short_code = $1, and the code
\* that follows it; the id column is not selected.
StatsSelect(p) ==
    /\ pc[p] = "select_code"
    /\ req[p].op = "stats"
    /\ LET rows == SelectByCode(urls, req[p].code) IN
         IF rows = {}
           THEN Finish(p, Reply(404))
           ELSE \E first \in rows :
                  Finish(p, [Reply(200) EXCEPT !.stats = [first EXCEPT !.id = 0]])
    /\ UNCHANGED <<urls, urls_id_seq, req, row>>

\* The statement fails in the store: catch, 500, finally.
StatsStoreFailure(p) ==
    /\ pc[p] = "select_code"
    /\ req[p].op = "stats"
    /\ Finish(p, [Reply(500) EXCEPT !.logged = "store_failure"])
    /\ UNCHANGED <<urls, urls_id_seq, req, row>>

Next ==
    \E p \in Requests :
        \/ \E in \in ShortenInputs : ShortenReceive(p, in[1], in[2])
        \/ ShortenSelectUrl(p)
        \/ ShortenSelectAlias(p)
        \/ ShortenInsert(p)
        \/ ShortenStoreFailure(p)
        \/ \E code \in PathCodes : RedirectReceive(p, code)
        \/ RedirectSelect(p)
        \/ RedirectUpdate(p)
        \/ RedirectStoreFailure(p)
        \/ \E code \in PathCodes : StatsReceive(p, code)
        \/ StatsSelect(p)
        \/ StatsStoreFailure(p)

Spec == Init /\ [][Next]_vars

(***************************************************************************)
(* Properties                                                              *)
(***************************************************************************)
Shortens == {p \in Requests : req[p].op = "shorten"}
Redirects == {p \in Requests : req[p].op = "redirect"}
Done(p) == pc[p] = "done"
\* Request p executes a statement in this step.
Steps(p) == pc'[p] # pc[p]
\* The store was reachable for the statement p executed in this step (the
\* design assumes a store that is reachable for every operation).
Reachable(p) == res'[p].logged # "store_failure"
Answered(p) == Done(p) /\ res[p].logged # "store_failure"

\* C1: in every reachable state, whatever the interleaving of POST /shorten
\* requests, the table holds at most one row per original_url.
C1_OneRecordPerUrl ==
    \A r1 \in urls, r2 \in urls : r1.original_url = r2.original_url => r1 = r2

\* Two requests for the same URL both reached their INSERT; one row is stored.
C1_Witness ==
    \E p \in Shortens, q \in Shortens :
        /\ p # q /\ req[p].url = req[q].url
        /\ res[p].status = 201
        /\ res[q].logged = "unique_violation"
        /\ Cardinality(SelectByUrl(urls, req[p].url)) = 1

\* C2: of the concurrent POST /shorten requests for one URL (no alias), once a
\* row for the URL is stored, exactly one row is stored and every request that
\* the store answered returns that row's short code, with 201 or 200.
C2_ConcurrentIdenticalSubmissions ==
    \A p \in Shortens :
        (Answered(p) /\ req[p].alias = undefined /\ res[p].status # 400
            /\ SelectByUrl(urls, req[p].url) # {})
        => /\ Cardinality(SelectByUrl(urls, req[p].url)) = 1
           /\ res[p].status \in {200, 201}
           /\ \A r \in SelectByUrl(urls, req[p].url) : res[p].short_path = r.short_code

\* C3: a POST /shorten whose lookup by original_url runs when a row for the URL
\* is stored (as it is for every call that follows the call that created it)
\* answers 200 with that row's alias, or its short code when it has none,
\* whatever alias the request carries, and leaves the table unchanged.
C3_SequentialIdempotence ==
    [][\A p \in Requests :
        (pc[p] = "select_url" /\ Steps(p) /\ Reachable(p))
        => \A r \in urls :
             r.original_url = req[p].url
             => /\ pc'[p] = "done"
                /\ res'[p].status = 200
                /\ res'[p].short_path = ShortPath(r)
                /\ urls' = urls]_vars

\* A request was answered 200 although the alias it carries is reserved by the
\* row of another URL and differs from the alias of its own URL's row.
C3_Witness ==
    \E q \in Shortens, r \in urls, o \in urls :
        /\ res[q].status = 200
        /\ r.original_url = req[q].url
        /\ o.original_url # req[q].url
        /\ o.alias = req[q].alias
        /\ r.alias # req[q].alias
        /\ res[q].short_path = ShortPath(r)
        /\ Cardinality(urls) = 2

\* C4: every row's access_count equals the number of GET /:code requests that
\* selected that row and performed their UPDATE.
C4_NoLostUpdates ==
    \A r \in urls :
        r.access_count =
            Cardinality({p \in Redirects :
                            Done(p) /\ res[p].status = 302 /\ row[p].id = r.id})

\* Two resolutions of the same row were redirected and its count is 2.
C4_Witness ==
    \E p \in Redirects, q \in Redirects, r \in urls :
        /\ p # q
        /\ res[p].status = 302 /\ res[q].status = 302
        /\ row[p].id = r.id /\ row[q].id = r.id
        /\ r.access_count = 2

UniqueKeys(t) ==
    \A r1 \in t, r2 \in t :
        r1 # r2 => /\ r1.short_code # r2.short_code
                   /\ r1.alias # NULL => r1.alias # r2.alias

\* C5: no two rows share a short_code or a (non-null) alias in any state, and
\* no step overwrites a stored row's original_url, short_code or alias.
C5_UniqueCodesAndAliases ==
    [][/\ UniqueKeys(urls')
       /\ \A r \in urls : \E n \in urls' :
            /\ n.id = r.id
            /\ n.original_url = r.original_url
            /\ n.short_code = r.short_code
            /\ n.alias = r.alias]_vars

\* A second writer's insert of an alias already stored failed; the first
\* writer's row is the only one with that alias.
C5_Witness ==
    \E q \in Shortens, r \in urls :
        /\ res[q].logged = "unique_violation"
        /\ r.alias = req[q].alias
        /\ r.original_url # req[q].url
        /\ r.short_code # generateShortCode(req[q].url, DefaultLength)
        /\ SelectByUrl(urls, req[q].url) = {}

\* C6: no row's alias equals a different row's short_code, so at most one row
\* matches  alias = key OR short_code = key.
C6_NamespacesDisjoint ==
    \A r1 \in urls, r2 \in urls : r1 # r2 => r1.alias # r2.short_code

\* C7: a GET /:code whose key is the short_code or the alias of a stored row
\* selects that row: it goes on to increment that row's access_count and to
\* redirect to that row's original_url.
C7_LookupSymmetry ==
    [][\A p \in Requests :
        (pc[p] = "select_code" /\ req[p].op = "redirect" /\ Steps(p) /\ Reachable(p))
        => \A r \in urls :
             (r.short_code = req[p].code \/ r.alias = req[p].code)
             => /\ pc'[p] = "update"
                /\ row'[p].id = r.id
                /\ row'[p].original_url = r.original_url]_vars

\* Row r was inserted before request p arrived: requests are numbered in the
\* order of their arrival and the clock counts the arrivals.
StoredBefore(r, p) == r.created_at < p

\* The alias request p carries was reserved by the row of another URL before
\* p arrived: p is a later call than the one that created that row.
AliasReservedByOther(p) ==
    \E r \in urls :
        r.alias = req[p].alias /\ r.original_url # req[p].url /\ StoredBefore(r, p)

\* C8 as stated: a POST /shorten that arrives after its alias was reserved by
\* the row of another URL fails with 409, also when its own URL has a row: its
\* lookup by original_url does not answer it, and its alias check answers 409.
C8_AliasExclusivityAsStated ==
    [][\A p \in Requests :
        (pc[p] \in {"select_url", "select_alias"} /\ Steps(p) /\ Reachable(p)
            /\ AliasReservedByOther(p))
        => /\ urls' = urls
           /\ pc[p] = "select_url" => pc'[p] = "select_alias"
           /\ pc[p] = "select_alias" => res'[p].status = 409]_vars

\* C8 amended: such a request fails with 409 when its lookup finds no row for
\* its URL; when its URL has a row it is answered 200 with that row.  It never
\* writes.
C8_AliasExclusivity ==
    [][\A p \in Requests :
        (pc[p] \in {"select_url", "select_alias"} /\ Steps(p) /\ Reachable(p)
            /\ AliasReservedByOther(p))
        => /\ urls' = urls
           /\ pc[p] = "select_url" =>
                IF \E r \in urls : r.original_url = req[p].url
                  THEN pc'[p] = "done" /\ res'[p].status = 200
                  ELSE pc'[p] = "select_alias"
           /\ pc[p] = "select_alias" =>
                pc'[p] = "done" /\ res'[p].status = 409]_vars

\* A request for a URL without a row was refused its alias with 409.
C8_Witness ==
    \E q \in Shortens, r \in urls :
        /\ res[q].status = 409
        /\ r.alias = req[q].alias
        /\ r.original_url # req[q].url
        /\ SelectByUrl(urls, req[q].url) = {}

\* C9: a step of a POST /shorten request changes the table exactly when it
\* answers 201, and then it adds one row with the request's URL, the short
\* code generated from it and the request's alias (or NULL); the number of
\* rows equals the number of requests answered 201.
C9_WritesOnlyWhenCreated ==
    [][/\ \A p \in Requests :
            (req'[p].op = "shorten" /\ Steps(p))
            => IF res'[p].status = 201
                 THEN \E n \in urls' :
                        /\ n \notin urls
                        /\ urls' = urls \cup {n}
                        /\ n.original_url = req[p].url
                        /\ n.short_code = generateShortCode(req[p].url, DefaultLength)
                        /\ n.alias = (IF req[p].alias = undefined THEN NULL
                                                                  ELSE req[p].alias)
                 ELSE urls' = urls
       /\ Cardinality(urls') =
            Cardinality({p \in Requests : res'[p].status = 201})]_vars

\* One request created a row with its alias, another was refused the alias
\* with 409, a third was rejected with 400: one row is stored.
C9_Witness ==
    \E p \in Shortens, q \in Shortens, v \in Shortens :
        /\ res[p].status = 201 /\ req[p].alias # undefined
        /\ res[q].status = 409
        /\ res[v].status = 400
        /\ Cardinality(urls) = 1

\* C10: a GET /:code or GET /stats/:code whose SELECT runs when no row has the
\* key as alias or short_code answers 404, and the table is unchanged.
C10_NotFoundChangesNothing ==
    [][\A p \in Requests :
        (pc[p] = "select_code" /\ Steps(p) /\ Reachable(p)
            /\ \A r \in urls : r.alias # req[p].code /\ r.short_code # req[p].code)
        => /\ pc'[p] = "done"
           /\ res'[p].status = 404
           /\ urls' = urls]_vars

\* A resolution and a statistics request were both answered 404 while a row
\* is stored; the row's counter is still 0.
C10_Witness ==
    \E p \in Redirects, q \in Requests, r \in urls :
        /\ res[p].status = 404
        /\ req[q].op = "stats" /\ res[q].status = 404
        /\ r.access_count = 0
        /\ Cardinality(urls) = 1

\* The requests that were redirected after updating the row with this id.
Resolutions(id) ==
    {p \in Redirects : Done(p) /\ res[p].status = 302 /\ row[p].id = id}

\* C11: the SELECT of a GET /stats/:code leaves the table unchanged, and when
\* a row has the key as alias or short_code it answers 200 with the current
\* original_url, short_code, alias, created_at, access_count and last_accessed
\* of such a row, the access_count being the number of completed resolutions
\* of that row.
C11_StatsReadOnly ==
    [][\A p \in Requests :
        (pc[p] = "select_code" /\ req[p].op = "stats" /\ Steps(p) /\ Reachable(p))
        => /\ urls' = urls
           /\ (\E m \in urls : m.alias = req[p].code \/ m.short_code = req[p].code)
              => /\ res'[p].status = 200
                 /\ \E r \in urls :
                      /\ r.alias = req[p].code \/ r.short_code = req[p].code
                      /\ res'[p].stats.original_url = r.original_url
                      /\ res'[p].stats.short_code = r.short_code
                      /\ res'[p].stats.alias = r.alias
                      /\ res'[p].stats.created_at = r.created_at
                      /\ res'[p].stats.access_count = r.access_count
                      /\ res'[p].stats.last_accessed = r.last_accessed
                      /\ res'[p].stats.access_count = Cardinality(Resolutions(r.id))]_vars

\* A statistics request reported access_count 1 after one completed
\* resolution, and the row still counts 1.
C11_Witness ==
    \E q \in Requests, r \in urls :
        /\ req[q].op = "stats" /\ res[q].status = 200
        /\ res[q].stats.access_count = 1
        /\ res[q].stats.original_url = r.original_url
        /\ r.access_count = 1
        /\ Cardinality(Resolutions(r.id)) = 1

\* C12: a request holds its client exactly while it is in flight: the client
\* is released in the step that finishes the request, on every exit path, and
\* once only; a request rejected by validation never acquires one; when no
\* request is in flight no client is held.
C12_ClientReleasedOnEveryPath ==
    [][\A p \in Requests :
        /\ client[p] = "released" => client'[p] = "released"
        /\ (client'[p] = "released" /\ client[p] # "released")
           => client[p] = "held" /\ pc[p] # "done" /\ pc'[p] = "done"
        /\ pc'[p] = "idle" => client'[p] = "none"
        /\ pc'[p] \notin {"idle", "done"} => client'[p] = "held"
        /\ pc'[p] = "done" =>
             IF res'[p].status = 400 THEN client'[p] = "none"
                                     ELSE client'[p] = "released"]_vars

\* All requests have finished, one by the early return for an existing URL,
\* one through the catch block and one by the insert; no client is held.
C12_Witness ==
    /\ \A p \in Requests : Done(p) /\ client[p] = "released"
    /\ \E p \in Shortens : res[p].status = 200
    /\ \E p \in Requests : res[p].logged = "store_failure"
    /\ \E p \in Shortens : res[p].status = 201

\* C13: the short path of every 201 and 200 answer of POST /shorten is the
\* alias of the row stored for the request's URL when that row has one, and
\* that row's short_code otherwise, whatever alias the request carries.
C13_ShortPathOfStoredRecord ==
    \A p \in Shortens :
        (Done(p) /\ res[p].status \in {200, 201})
        => \E r \in urls :
             /\ r.original_url = req[p].url
             /\ res[p].short_path = (IF r.alias # NULL THEN r.alias ELSE r.short_code)

\* A request that carried an alias was answered 200 with the short code of the
\* stored row, which has no alias; another request created a row with its
\* alias and was answered 201 with that alias.
C13_Witness ==
    \E p \in Shortens, q \in Shortens, r \in urls :
        /\ res[p].status = 200 /\ req[p].alias # undefined
        /\ r.original_url = req[p].url /\ r.alias = NULL
        /\ res[p].short_path = r.short_code
        /\ res[q].status = 201 /\ req[q].alias # undefined
        /\ res[q].short_path = req[q].alias

\* C14: no step deletes a row or changes its id, original_url, short_code,
\* alias or created_at; a step that changes a row is the UPDATE of a GET /:code
\* that selected that row, it is answered with the redirect, and it changes no
\* other row.
C14_RecordsImmutableButForAccess ==
    [][\A r \in urls : \E n \in urls' :
        /\ n.id = r.id
        /\ n.original_url = r.original_url
        /\ n.short_code = r.short_code
        /\ n.alias = r.alias
        /\ n.created_at = r.created_at
        /\ n # r => \E p \in Requests :
                      /\ req[p].op = "redirect"
                      /\ pc[p] = "update" /\ pc'[p] = "done"
                      /\ res'[p].status = 302
                      /\ row[p].id = r.id
                      /\ \A o \in urls : o.id # r.id => o \in urls']_vars

\* Of two stored rows one has been resolved once and the other never.
C14_Witness ==
    \E r1 \in urls, r2 \in urls :
        /\ r1.id # r2.id
        /\ r1.access_count = 1
        /\ r2.access_count = 0 /\ r2.last_accessed = NullTime
        /\ \E p \in Redirects : res[p].status = 302 /\ row[p].id = r1.id

\* C15: a row's access_count is 0 when the row is inserted, is never negative
\* and is never lower after a step than before it.
C15_AccessCountMonotonic ==
    [][/\ \A r \in urls : \E n \in urls' :
            n.id = r.id /\ n.access_count >= r.access_count
       /\ \A n \in urls' :
            /\ n.access_count >= 0
            /\ (\A r \in urls : r.id # n.id) => n.access_count = 0]_vars

\* The only stored row has been resolved twice.
C15_Witness ==
    \E r \in urls : r.access_count = 2 /\ Cardinality(urls) = 1

\* The request text fails a validation: the url is missing or empty, has no
\* scheme, or the alias is shorter than 3 or longer than 30 characters.
InvalidInput(url, alias) ==
    \/ url = <<>>
    \/ \A i \in 1..Len(url) : url[i] # ":"
    \/ alias # undefined /\ (Len(alias) < AliasMin \/ Len(alias) > AliasMax)

\* C16: a POST /shorten with invalid input is answered 400 in the step in
\* which it arrives: it acquires no client, issues no statement, and the table
\* and its id sequence are unchanged.
C16_InvalidInputRejectedBeforeStore ==
    [][\A p \in Requests :
        (pc[p] = "idle" /\ Steps(p) /\ req'[p].op = "shorten"
            /\ InvalidInput(req'[p].url, req'[p].alias))
        => /\ pc'[p] = "done"
           /\ res'[p].status = 400
           /\ client'[p] = "none"
           /\ urls' = urls
           /\ urls_id_seq' = urls_id_seq]_vars

\* A request with an alias of 31 characters and a request without url were
\* answered 400 and hold no client, while a row is stored.
C16_Witness ==
    \E p \in Shortens, q \in Shortens :
        /\ res[p].status = 400 /\ req[p].alias # undefined
        /\ Len(req[p].alias) > AliasMax /\ client[p] = "none"
        /\ res[q].status = 400 /\ req[q].url = <<>> /\ client[q] = "none"
        /\ urls # {}

\* C18: when a POST /shorten passed its alias check and its INSERT is then
\* rejected because a concurrent request for another URL stored the same alias
\* first, exactly one row holds the alias and the rejected request is not
\* answered with a server error.
C18_AliasRaceNotServerError ==
    \A q \in Shortens :
        (/\ Done(q) /\ req[q].alias # undefined
         /\ \E r \in urls : r.alias = req[q].alias /\ r.original_url # req[q].url
         /\ \A r \in urls :
               r.short_code # generateShortCode(req[q].url, DefaultLength))
        => /\ Cardinality(SelectByAlias(urls, req[q].alias)) = 1
           /\ ~(res[q].status = 500 /\ res[q].logged = "unique_violation")

\* Before request p arrived a row was stored for another URL with the short
\* code of p's URL.
CodeTakenByOther(p) ==
    \E r \in urls :
        /\ r.short_code = generateShortCode(req[p].url, DefaultLength)
        /\ r.original_url # req[p].url
        /\ StoredBefore(r, p)

\* C19 as stated: a POST /shorten for a URL whose short code is already stored
\* for another URL always fails at its INSERT: no earlier statement answers
\* it, the INSERT is rejected and answered with an error, the table is
\* unchanged and holds no row for the request's URL.
C19_CodeCollisionAsStated ==
    [][\A p \in Requests :
        (pc[p] \in {"select_url", "select_alias", "insert"} /\ Steps(p)
            /\ Reachable(p) /\ CodeTakenByOther(p))
        => /\ urls' = urls
           /\ SelectByUrl(urls', req[p].url) = {}
           /\ pc[p] # "insert" => pc'[p] # "done"
           /\ pc[p] = "insert" =>
                res'[p].status = 500 /\ res'[p].logged = "unique_violation"]_vars

\* C19 amended: such a request fails at its INSERT with 500, or already at its
\* alias check with 409 when the alias it carries is reserved; in both cases
\* the table is unchanged and holds no row for the request's URL.
C19_CodeCollision ==
    [][\A p \in Requests :
        (pc[p] \in {"select_url", "select_alias", "insert"} /\ Steps(p)
            /\ Reachable(p) /\ CodeTakenByOther(p))
        => /\ urls' = urls
           /\ SelectByUrl(urls', req[p].url) = {}
           /\ pc[p] = "select_url" => pc'[p] # "done"
           /\ pc[p] = "select_alias" =>
                \/ pc'[p] = "insert"
                \/ /\ res'[p].status = 409
                   /\ \E r \in urls : r.alias = req[p].alias
           /\ pc[p] = "insert" =>
                res'[p].status = 500 /\ res'[p].logged = "unique_violation"]_vars

\* A request for a URL whose short code was already stored for another URL
\* had its INSERT rejected; the other URL's row is stored, none for this URL.
C19_Witness ==
    \E q \in Shortens, r \in urls :
        /\ res[q].logged = "unique_violation"
        /\ r.short_code = generateShortCode(req[q].url, DefaultLength)
        /\ r.original_url # req[q].url
        /\ StoredBefore(r, q)
        /\ SelectByUrl(urls, req[q].url) = {}

\* C20: in every state a row's last_accessed is null exactly when its
\* access_count is 0.
C20_LastAccessedIffCounted ==
    \A r \in urls : (r.last_accessed = NullTime) <=> (r.access_count = 0)

\* One row has been resolved and carries a timestamp, another has not and
\* carries none.
C20_Witness ==
    \E r1 \in urls, r2 \in urls :
        /\ r1.access_count = 1 /\ r1.last_accessed # NullTime
        /\ r2.access_count = 0 /\ r2.last_accessed = NullTime
        /\ r1.last_accessed >= r1.created_at

====
